---- MODULE Spec2Model ----
(***************************************************************************)
(* Model of bot.py: a Telegram bot served through a FastAPI webhook.       *)
(*                                                                         *)
(* Every POST /webhook creates one asyncio task that runs                  *)
(* application.process_update(update).  The tasks share one event loop:    *)
(* they interleave only at the awaits (the chat-API calls), and the        *)
(* yt_dlp call of handle_option is an ordinary synchronous call, so the    *)
(* loop runs nothing else between its start and its return.                *)
(*                                                                         *)
(* A task's pc names the await it is suspended in ("created" before its    *)
(* first step, "fetch" while it is inside the yt_dlp call, "done" after    *)
(* its last).  One action resumes a task from one await, with the outcome  *)
(* of that await (returned or raised), and runs the code up to the next.   *)
(***************************************************************************)
EXTENDS Naturals, Sequences, FiniteSets

\* ------------------------------------------------------------------ bounds
MaxTasks == 3

\* The number of /start requests explored over every time of day
MaxGreetings == 1

Users == {"A", "B"}
Titles == {"T1", "T2"}

\* Python's None, as pending_songs.get returns it
None == "<None>"

\* a local variable that has not been assigned yet
Unset == "<unset>"

\* ---------------------------------------------------------------- inputs
\* message texts: the two registered commands, another command, two
\* queries, and a message whose text is empty
Texts == {"/start", "/stats", "/help", "Shape of You", "Hello", ""}
Choices == {"music", "video", "both"}

\* The updates the webhook receives.  User A sends every text and presses
\* every button; user B sends /start and one query and presses one button;
\* one update is of a kind no handler is registered for (it names no user).
Updates ==
  [kind : {"message"}, user : {"A"}, data : Texts]
    \cup [kind : {"callback_query"}, user : {"A"}, data : Choices]
    \cup [kind : {"message"}, user : {"B"}, data : {"/start", "Hello"}]
    \cup [kind : {"callback_query"}, user : {"B"}, data : {"music"}]
    \cup [kind : {"other"}, user : {None}, data : {""}]

VARIABLES
  tasks,          \* the tasks created by telegram_webhook, in creation order
  acks,           \* the response telegram_webhook returned for each of them
  monthly_users,  \* set of user ids
  pending_songs,  \* dict user_id -> song_name
  files           \* the media files present in the working directory

vars == <<tasks, acks, monthly_users, pending_songs, files>>

\* ------------------------------------------------------------ dict helpers
EmptyDict == [x \in {} |-> None]

DictGet(d, k) == IF k \in DOMAIN d THEN d[k] ELSE None

\* (mutant) dict.setdefault: an existing entry is kept
DictSet_keeps_first(d, k, v) == [x \in DOMAIN d \cup {k} |-> IF x \in DOMAIN d THEN d[x] ELSE v]

\* d[k] = v
DictSet(d, k, v) == [x \in DOMAIN d \cup {k} |-> IF x = k THEN v ELSE d[x]]

DictPop(d, k) == [x \in DOMAIN d \ {k} |-> d[x]]

\* (mutant) the user is toggled instead of added
SetAdd_toggles(s, x) == IF x \in s THEN s \ {x} ELSE s \cup {x}

\* set.add
SetAdd(s, x) == s \cup {x}

\* (mutant) the check of the pending song is lost: nothing counts as missing
Falsy_never(s) == FALSE

\* `if not song_name`: None and the empty string are both falsy
Falsy(s) == s = None \/ s = ""

\* ---------------------------------------------------------------- dispatch
\* filters.COMMAND: the text starts with a bot command
IsCommand(text) == text \in {"/start", "/stats", "/help"}

\* (mutant) filters.TEXT accepts every message, an empty text included
IsText_any(text) == TRUE

\* filters.TEXT: the message has a non-empty text
IsText(text) == text # ""

\* (mutant) the message handler is registered with filters.TEXT alone
Route_all_text(upd) ==
  IF upd.kind = "message"
    THEN IF upd.data = "/start" THEN "start"
         ELSE IF upd.data = "/stats" THEN "stats"
         ELSE IF IsText(upd.data) THEN "handle_song_name"
         ELSE "none"
  ELSE IF upd.kind = "callback_query" THEN "handle_option"
  ELSE "none"

\* The handler of the first registered handler that accepts the update
Route(upd) ==
  IF upd.kind = "message"
    THEN IF upd.data = "/start" THEN "start"
         ELSE IF upd.data = "/stats" THEN "stats"
         ELSE IF IsText(upd.data) /\ ~IsCommand(upd.data) THEN "handle_song_name"
         ELSE "none"
  ELSE IF upd.kind = "callback_query" THEN "handle_option"
  ELSE "none"

\* ------------------------------------------------------------------ fetch
AUDIO_ONLY == "bestaudio[ext=m4a]/bestaudio"
VIDEO_WITH_AUDIO == "bestvideo[height<=720]+bestaudio/best"

\* (mutant) every choice downloads the video format
ydl_format_video(choice) == VIDEO_WITH_AUDIO

\* the "format" of ydl_opts for a choice
ydl_format(choice) ==
  IF choice = "music" THEN AUDIO_ONLY
  ELSE IF choice = "video" THEN VIDEO_WITH_AUDIO
  ELSE VIDEO_WITH_AUDIO

\* the container of the file a format request downloads
ExtOf(format) == IF format = AUDIO_ONLY THEN "m4a" ELSE "mp4"

\* outtmpl "%(title)s.%(ext)s"
prepare_filename(info) == <<info.title, info.ext>>

\* -------------------------------------------------------------- greeting
\* datetime.utcnow(): only the time of day matters
Times == [hour : 0..23, minute : 0..59]

\* the clock readings the request flows are explored with
SampleTimes == {[hour |-> 6, minute |-> 45], [hour |-> 23, minute |-> 30]}

\* the 5.5 of `utcnow().hour + 5.5`, in half hours
IST_HALF_HOURS == 11

\* int((now.hour + 5.5) % 24), computed in half hours: the minute of now
\* is not read
ist_hour(now) == ((2 * now.hour + IST_HALF_HOURS) % 48) \div 2

\* the greeting and the name it is addressed to
get_greeting(username, now) ==
  LET hour == ist_hour(now)
  IN <<IF 5 <= hour /\ hour < 12 THEN "Good Morning"
       ELSE IF 12 <= hour /\ hour < 17 THEN "Good Afternoon"
       ELSE IF 17 <= hour /\ hour < 21 THEN "Good Evening"
       ELSE "Good Night",
       username>>

\* ------------------------------------------------------------------ tasks
\* info and filename before extract_info has returned
NoInfo == [title |-> Unset, ext |-> Unset]

NoFile == prepare_filename(NoInfo)

NewTask(upd) ==
  [update |-> upd, handler |-> Route(upd), pc |-> "created",
   song_name |-> Unset, info |-> NoInfo, filename |-> NoFile,
   reported |-> 0, log |-> <<>>, outcome |-> "running"]

WebhookResponse == [ok |-> TRUE]

TaskIds == 1..Len(tasks)

\* the event loop is inside a synchronous call of some task
LoopBlocked == \E t \in TaskIds : tasks[t].pc = "fetch"

\* task t is suspended in await p and the loop is free to resume it
At(t, p) == t \in TaskIds /\ tasks[t].pc = p /\ ~LoopBlocked

SetTask(t, rec) == tasks' = [tasks EXCEPT ![t] = rec]

\* the handler raised out of process_update's handler call: logged, no reply
Escaped(tk) == [tk EXCEPT !.pc = "done", !.outcome = "escaped"]

Finished(tk, how) == [tk EXCEPT !.pc = "done", !.outcome = how]

Suspend(tk, p) == [tk EXCEPT !.pc = p]

Logged(tk, ev) == [tk EXCEPT !.log = Append(@, ev)]

Init ==
  /\ tasks = <<>>
  /\ acks = <<>>
  /\ monthly_users = {}
  /\ pending_songs = EmptyDict
  /\ files = {}

\* ---------------------------------------------------------------- webhook
\* (mutant) the webhook awaits process_update: no response when the task is
\* created
telegram_webhook_awaits(upd) ==
  /\ ~LoopBlocked
  /\ Len(tasks) < MaxTasks
  /\ tasks' = Append(tasks, NewTask(upd))
  /\ UNCHANGED <<acks, monthly_users, pending_songs, files>>

\* POST /webhook: create the task of the update, return the acknowledgement
telegram_webhook(upd) ==
  /\ ~LoopBlocked
  /\ Len(tasks) < MaxTasks
  /\ tasks' = Append(tasks, NewTask(upd))
  /\ acks' = Append(acks, WebhookResponse)
  /\ UNCHANGED <<monthly_users, pending_songs, files>>

\* --------------------------------------------------------------- handlers
\* no registered handler accepts the update
ignore_update(t) ==
  /\ At(t, "created")
  /\ tasks[t].handler = "none"
  /\ SetTask(t, Finished(tasks[t], "ignored"))
  /\ UNCHANGED <<acks, monthly_users, pending_songs, files>>

start(t, now) ==
  /\ At(t, "created")
  /\ tasks[t].handler = "start"
  /\ monthly_users' = SetAdd(monthly_users, tasks[t].update.user)
  /\ SetTask(t, Suspend(Logged(tasks[t], <<"get_greeting", now,
                                           get_greeting(tasks[t].update.user, now)>>),
                        "reply_text"))
  /\ UNCHANGED <<acks, pending_songs, files>>

handle_song_name(t) ==
  /\ At(t, "created")
  /\ tasks[t].handler = "handle_song_name"
  /\ pending_songs' = DictSet(pending_songs, tasks[t].update.user, tasks[t].update.data)
  /\ SetTask(t, Suspend(tasks[t], "reply_text"))
  /\ UNCHANGED <<acks, monthly_users, files>>

\* (mutant) the count of /start calls is reported
stats_counts_calls(t) ==
  /\ At(t, "created")
  /\ tasks[t].handler = "stats"
  /\ SetTask(t, Suspend([tasks[t] EXCEPT !.reported =
                           Cardinality({i \in TaskIds : tasks[i].handler = "start"
                                                        /\ tasks[i].pc # "created"})],
                        "reply_text"))
  /\ UNCHANGED <<acks, monthly_users, pending_songs, files>>

\* /stats: the number is computed before the reply is awaited
stats(t) ==
  /\ At(t, "created")
  /\ tasks[t].handler = "stats"
  /\ SetTask(t, Suspend([tasks[t] EXCEPT !.reported = Cardinality(monthly_users)],
                        "reply_text"))
  /\ UNCHANGED <<acks, monthly_users, pending_songs, files>>

\* the reply_text of start, handle_song_name or stats returns or raises
reply_text_returns(t, ok) ==
  /\ At(t, "reply_text")
  /\ SetTask(t, IF ok
                  THEN Finished(Logged(tasks[t], <<"reply_text", tasks[t].handler>>), "ok")
                  ELSE Escaped(tasks[t]))
  /\ UNCHANGED <<acks, monthly_users, pending_songs, files>>

\* ---------------------------------------------------------- handle_option
\* (mutant) a user's selections are serialized: the task waits while another
\* selection of the same user is in flight
handle_option_serialized(t) ==
  /\ At(t, "created")
  /\ tasks[t].handler = "handle_option"
  /\ \A o \in TaskIds \ {t} :
       tasks[o].handler = "handle_option" /\ tasks[o].update.user = tasks[t].update.user
       => tasks[o].pc \in {"created", "done"}
  /\ SetTask(t, Suspend(tasks[t], "answer"))
  /\ UNCHANGED <<acks, monthly_users, pending_songs, files>>

\* the task starts: await query.answer()
handle_option(t) ==
  /\ At(t, "created")
  /\ tasks[t].handler = "handle_option"
  /\ SetTask(t, Suspend(tasks[t], "answer"))
  /\ UNCHANGED <<acks, monthly_users, pending_songs, files>>

\* query.answer() returns: read the pending song, edit the prompt
answer_returns(t, ok) ==
  /\ At(t, "answer")
  /\ LET song_name == DictGet(pending_songs, tasks[t].update.user)
         tk == [tasks[t] EXCEPT !.song_name = song_name]
     IN SetTask(t, IF ~ok THEN Escaped(tasks[t])
                   ELSE IF Falsy(song_name) THEN Suspend(tk, "edit_no_song")
                   ELSE Suspend(tk, "edit_downloading"))
  /\ UNCHANGED <<acks, monthly_users, pending_songs, files>>

\* the "No song found" edit returns or raises; the handler returns
edit_no_song_returns(t, ok) ==
  /\ At(t, "edit_no_song")
  /\ SetTask(t, IF ok
                  THEN Finished(Logged(tasks[t], <<"edit_message_text", "no_song">>),
                                "no_song")
                  ELSE Escaped(tasks[t]))
  /\ UNCHANGED <<acks, monthly_users, pending_songs, files>>

\* the "Downloading" edit returns: await send_typing
edit_downloading_returns(t, ok) ==
  /\ At(t, "edit_downloading")
  /\ SetTask(t, IF ok
                  THEN Suspend(Logged(tasks[t], <<"edit_message_text", "downloading">>),
                               "typing")
                  ELSE Escaped(tasks[t]))
  /\ UNCHANGED <<acks, monthly_users, pending_songs, files>>

\* send_typing returns: build ydl_opts and call extract_info, which does not
\* yield to the event loop
typing_returns(t, ok) ==
  /\ At(t, "typing")
  /\ SetTask(t, IF ok
                  THEN Suspend(Logged(Logged(tasks[t], <<"send_chat_action", "typing">>),
                                      <<"extract_info", tasks[t].song_name,
                                        ydl_format(tasks[t].update.data)>>),
                               "fetch")
                  ELSE Escaped(tasks[t]))
  /\ UNCHANGED <<acks, monthly_users, pending_songs, files>>

\* the first await after a successful fetch, for a choice
FirstSend(choice) ==
  IF choice \in {"music", "both"} THEN "send_audio"
  ELSE IF choice \in {"video", "both"} THEN "send_video"
  ELSE "reply_delivered"

\* (mutant) the except clause also clears the pending song
fetch_raises_clears(t) ==
  /\ t \in TaskIds
  /\ tasks[t].pc = "fetch"
  /\ SetTask(t, Suspend(Logged(tasks[t], <<"logger.error", tasks[t].song_name>>),
                        "reply_failed"))
  /\ pending_songs' = DictPop(pending_songs, tasks[t].update.user)
  /\ UNCHANGED <<acks, monthly_users, files>>

\* (mutant) no except clause: the error of extract_info leaves the handler
fetch_raises_escapes(t) ==
  /\ t \in TaskIds
  /\ tasks[t].pc = "fetch"
  /\ SetTask(t, Escaped(tasks[t]))
  /\ UNCHANGED <<acks, monthly_users, pending_songs, files>>

\* extract_info raises: the except clause logs and replies
fetch_raises(t) ==
  /\ t \in TaskIds
  /\ tasks[t].pc = "fetch"
  /\ SetTask(t, Suspend(Logged(tasks[t], <<"logger.error", tasks[t].song_name>>),
                        "reply_failed"))
  /\ UNCHANGED <<acks, monthly_users, pending_songs, files>>

\* (mutant) the pending song is cleared as soon as extract_info returns
fetch_returns_clears(t, title) ==
  /\ t \in TaskIds
  /\ tasks[t].pc = "fetch"
  /\ LET info == [title |-> title, ext |-> ExtOf(ydl_format(tasks[t].update.data))]
     IN /\ files' = files \cup {prepare_filename(info)}
        /\ SetTask(t, Suspend(Logged([tasks[t] EXCEPT !.info = info,
                                                      !.filename = prepare_filename(info)],
                                     <<"pending_songs.pop", tasks[t].update.user>>),
                              FirstSend(tasks[t].update.data)))
  /\ pending_songs' = DictPop(pending_songs, tasks[t].update.user)
  /\ UNCHANGED <<acks, monthly_users>>

\* extract_info returns info, the file is on disk: first delivery
fetch_returns(t, title) ==
  /\ t \in TaskIds
  /\ tasks[t].pc = "fetch"
  /\ LET info == [title |-> title, ext |-> ExtOf(ydl_format(tasks[t].update.data))]
     IN /\ files' = files \cup {prepare_filename(info)}
        /\ SetTask(t, Suspend([tasks[t] EXCEPT !.info = info,
                                               !.filename = prepare_filename(info)],
                              FirstSend(tasks[t].update.data)))
  /\ UNCHANGED <<acks, monthly_users, pending_songs>>

\* send_audio returns or raises
send_audio_returns(t, ok) ==
  /\ At(t, "send_audio")
  /\ SetTask(t, IF ok
                  THEN Suspend(Logged(tasks[t], <<"send_audio", tasks[t].filename,
                                                  tasks[t].info.title>>),
                               IF tasks[t].update.data \in {"video", "both"}
                                 THEN "send_video" ELSE "reply_delivered")
                  ELSE Suspend(Logged(tasks[t], <<"logger.error", tasks[t].song_name>>),
                               "reply_failed"))
  /\ UNCHANGED <<acks, monthly_users, pending_songs, files>>

\* send_video returns or raises
send_video_returns(t, ok) ==
  /\ At(t, "send_video")
  /\ SetTask(t, IF ok
                  THEN Suspend(Logged(tasks[t], <<"send_video", tasks[t].filename,
                                                  tasks[t].info.title>>),
                               "reply_delivered")
                  ELSE Suspend(Logged(tasks[t], <<"logger.error", tasks[t].song_name>>),
                               "reply_failed"))
  /\ UNCHANGED <<acks, monthly_users, pending_songs, files>>

\* (mutant) the successful run ends without clearing the pending song
reply_delivered_returns_keeps(t, ok) ==
  /\ At(t, "reply_delivered")
  /\ IF ok
       THEN /\ files' = files \ {tasks[t].filename}
            /\ SetTask(t, Finished(
                 Logged(Logged(tasks[t],
                   <<"reply_text", "delivered", tasks[t].info.title>>),
                   <<"os.remove", tasks[t].filename, tasks[t].filename \in files>>),
                 "success"))
       ELSE /\ SetTask(t, Suspend(Logged(tasks[t], <<"logger.error", tasks[t].song_name>>),
                                  "reply_failed"))
            /\ UNCHANGED files
  /\ UNCHANGED <<acks, monthly_users, pending_songs>>

\* the "Delivered" reply returns: remove the file, clear the pending song;
\* or it raises: the except clause logs and replies
reply_delivered_returns(t, ok) ==
  /\ At(t, "reply_delivered")
  /\ IF ok
       THEN /\ files' = files \ {tasks[t].filename}
            /\ pending_songs' = DictPop(pending_songs, tasks[t].update.user)
            /\ SetTask(t, Finished(
                 Logged(Logged(Logged(tasks[t],
                   <<"reply_text", "delivered", tasks[t].info.title>>),
                   <<"os.remove", tasks[t].filename, tasks[t].filename \in files>>),
                   <<"pending_songs.pop", tasks[t].update.user>>),
                 "success"))
       ELSE /\ SetTask(t, Suspend(Logged(tasks[t], <<"logger.error", tasks[t].song_name>>),
                                  "reply_failed"))
            /\ UNCHANGED <<pending_songs, files>>
  /\ UNCHANGED <<acks, monthly_users>>

\* (mutant) the failure path ends by clearing the pending song
reply_failed_returns_clears(t, ok) ==
  /\ At(t, "reply_failed")
  /\ SetTask(t, IF ok
                  THEN Finished(Logged(tasks[t], <<"reply_text", "failed">>), "failed")
                  ELSE Escaped(tasks[t]))
  /\ pending_songs' = DictPop(pending_songs, tasks[t].update.user)
  /\ UNCHANGED <<acks, monthly_users, files>>

\* the "Failed to fetch" reply returns or raises; the handler ends
reply_failed_returns(t, ok) ==
  /\ At(t, "reply_failed")
  /\ SetTask(t, IF ok
                  THEN Finished(Logged(tasks[t], <<"reply_text", "failed">>), "failed")
                  ELSE Escaped(tasks[t]))
  /\ UNCHANGED <<acks, monthly_users, pending_songs, files>>

\* one step of task t, whichever action takes it
Step(t) ==
  \/ ignore_update(t)
  \/ \E now \in SampleTimes : start(t, now)
  \/ handle_song_name(t)
  \/ stats(t)
  \/ \E ok \in BOOLEAN : reply_text_returns(t, ok)
  \/ handle_option(t)
  \/ \E ok \in BOOLEAN : answer_returns(t, ok)
  \/ \E ok \in BOOLEAN : edit_no_song_returns(t, ok)
  \/ \E ok \in BOOLEAN : edit_downloading_returns(t, ok)
  \/ \E ok \in BOOLEAN : typing_returns(t, ok)
  \/ fetch_raises(t)
  \/ \E title \in Titles : fetch_returns(t, title)
  \/ \E ok \in BOOLEAN : send_audio_returns(t, ok)
  \/ \E ok \in BOOLEAN : send_video_returns(t, ok)
  \/ \E ok \in BOOLEAN : reply_delivered_returns(t, ok)
  \/ \E ok \in BOOLEAN : reply_failed_returns(t, ok)

Next ==
  \/ \E upd \in Updates : telegram_webhook(upd)
  \/ \E t \in TaskIds : ignore_update(t)
  \/ \E t \in TaskIds, now \in SampleTimes : start(t, now)
  \/ \E t \in TaskIds : handle_song_name(t)
  \/ \E t \in TaskIds : stats(t)
  \/ \E t \in TaskIds, ok \in BOOLEAN : reply_text_returns(t, ok)
  \/ \E t \in TaskIds : handle_option(t)
  \/ \E t \in TaskIds, ok \in BOOLEAN : answer_returns(t, ok)
  \/ \E t \in TaskIds, ok \in BOOLEAN : edit_no_song_returns(t, ok)
  \/ \E t \in TaskIds, ok \in BOOLEAN : edit_downloading_returns(t, ok)
  \/ \E t \in TaskIds, ok \in BOOLEAN : typing_returns(t, ok)
  \/ \E t \in TaskIds : fetch_raises(t)
  \/ \E t \in TaskIds, title \in Titles : fetch_returns(t, title)
  \/ \E t \in TaskIds, ok \in BOOLEAN : send_audio_returns(t, ok)
  \/ \E t \in TaskIds, ok \in BOOLEAN : send_video_returns(t, ok)
  \/ \E t \in TaskIds, ok \in BOOLEAN : reply_delivered_returns(t, ok)
  \/ \E t \in TaskIds, ok \in BOOLEAN : reply_failed_returns(t, ok)

Spec == Init /\ [][Next]_vars

\* ------------------------------------------- get_greeting on its own
\* /start requests alone, served at every time of day
StartUpdates == {upd \in Updates : upd.kind = "message" /\ upd.data = "/start"}

NextGreeting ==
  \/ \E upd \in StartUpdates : Len(tasks) < MaxGreetings /\ telegram_webhook(upd)
  \/ \E t \in TaskIds, now \in Times : start(t, now)
  \/ \E t \in TaskIds, ok \in BOOLEAN : reply_text_returns(t, ok)

SpecGreeting == Init /\ [][NextGreeting]_vars

\* ================================================================= claims
\* the events of a task's log with a given name
Events(tk, name) == SelectSeq(tk.log, LAMBDA e : e[1] = name)

IsOption(tk) == tk.handler = "handle_option"

\* the run's yt_dlp call has returned or raised
FetchCompleted(tk) ==
  IsOption(tk) /\ Len(Events(tk, "extract_info")) > 0 /\ tk.pc # "fetch"

\* the run's yt_dlp call raised
FetchRaised(tk) == FetchCompleted(tk) /\ tk.info = NoInfo

\* this step ends the run of task t in success
EndsInSuccess(t) == tasks[t].pc # "done" /\ tasks'[t].outcome = "success"

\* C1: a handle_option run that fetches, delivers and confirms ends with
\* no pending song for its user; the steps of a run whose fetch raised (the
\* except clause and its reply) leave pending_songs as it is, and every run
\* fetches the song it read from pending_songs, so that the user's next
\* selection fetches the same song again.
ThmC1 ==
  [][\A t \in TaskIds : tasks'[t] # tasks[t] /\ IsOption(tasks[t]) =>
       /\ EndsInSuccess(t) => tasks[t].update.user \notin DOMAIN pending_songs'
       /\ FetchRaised(tasks'[t]) => pending_songs' = pending_songs
       /\ tasks[t].pc = "answer" /\ tasks'[t].pc # "done" =>
            tasks'[t].song_name = DictGet(pending_songs, tasks[t].update.user)
       /\ \A i \in 1..Len(Events(tasks'[t], "extract_info")) :
            Events(tasks'[t], "extract_info")[i][2] = tasks'[t].song_name]_vars

\* a run of user u failed in the fetch of q, u's next run fetched q and ended
\* in success, and u has no pending song
WitC1 ==
  \E t1, t2 \in TaskIds :
    /\ t1 < t2
    /\ tasks[t1].update.user = tasks[t2].update.user
    /\ FetchRaised(tasks[t1]) /\ tasks[t1].outcome = "failed"
    /\ tasks[t2].outcome = "success"
    /\ Events(tasks[t2], "extract_info")[1][2] = tasks[t1].song_name
    /\ tasks[t1].update.user \notin DOMAIN pending_songs

\* C2: a handle_option run that finds no pending song for its user goes to
\* the "No song found" edit and returns: it never calls extract_info, sends
\* no media, and its steps change neither pending_songs nor monthly_users.
ThmC2 ==
  [][\A t \in TaskIds :
       /\ tasks'[t] # tasks[t]
       /\ IsOption(tasks[t])
       /\ \/ /\ tasks[t].pc = "answer"
             /\ tasks[t].update.user \notin DOMAIN pending_songs
             /\ tasks'[t].outcome # "escaped"
          \/ tasks[t].pc = "edit_no_song"
       => /\ tasks'[t].pc \in {"edit_no_song", "done"}
          /\ Events(tasks'[t], "extract_info") = <<>>
          /\ Events(tasks'[t], "send_audio") = <<>>
          /\ Events(tasks'[t], "send_video") = <<>>
          /\ tasks'[t].filename = NoFile
          /\ pending_songs' = pending_songs
          /\ monthly_users' = monthly_users
          /\ files' = files]_vars

\* a run found no pending song and ended after the "No song found" edit,
\* while another user has a pending song and the counter is not empty
WitC2 ==
  \E t \in TaskIds :
    /\ tasks[t].outcome = "no_song"
    /\ tasks[t].song_name = None
    /\ pending_songs # EmptyDict
    /\ monthly_users # {}

\* C3: a user's entry of pending_songs goes from present to absent (or to an
\* empty song) only in the last step of a handle_option run of that user
\* that fetched, delivered, confirmed and removed the file.
ThmC3 ==
  [][\A u \in Users :
       /\ u \in DOMAIN pending_songs
       /\ u \notin DOMAIN pending_songs' \/ Falsy(pending_songs'[u])
       => \E t \in TaskIds :
            /\ tasks[t].update.user = u
            /\ IsOption(tasks[t])
            /\ tasks[t].pc = "reply_delivered"
            /\ EndsInSuccess(t)
            /\ tasks'[t].info # NoInfo
            /\ Len(Events(tasks'[t], "send_audio")) + Len(Events(tasks'[t], "send_video")) > 0
            /\ Len(Events(tasks'[t], "os.remove")) = 1
            /\ tasks'[t].filename \notin files']_vars

\* a pending song was removed by a run that ended in success, after another
\* run of the same user had failed and left it in place
WitC3 ==
  \E t1, t2 \in TaskIds :
    /\ tasks[t1].update.user = tasks[t2].update.user
    /\ tasks[t1].outcome = "failed" /\ tasks[t1].info # NoInfo
    /\ tasks[t2].outcome = "success"
    /\ tasks[t2].update.user \notin DOMAIN pending_songs

\* C4 as stated: once the fetch of a handle_option run of user u has
\* returned or raised, u has no pending song.
CexC4 ==
  \A t \in TaskIds :
    FetchCompleted(tasks[t]) => tasks[t].update.user \notin DOMAIN pending_songs

\* C4, amended: the return of the fetch does not clear the pending song; a
\* run clears it in its last step, after delivery, confirmation and file
\* removal, and a run whose fetch raised leaves it in place to its end.
ThmC4 ==
  [][\A t \in TaskIds : tasks'[t] # tasks[t] /\ IsOption(tasks[t]) =>
       /\ tasks[t].pc = "fetch" => pending_songs' = pending_songs
       /\ tasks[t].update.user \in DOMAIN pending_songs /\ tasks'[t].outcome # "success"
            => /\ tasks[t].update.user \in DOMAIN pending_songs'
               /\ pending_songs'[tasks[t].update.user] = pending_songs[tasks[t].update.user]
       /\ tasks'[t].outcome = "success"
            => /\ tasks[t].update.user \notin DOMAIN pending_songs'
               /\ Len(Events(tasks'[t], "reply_text")) = 1]_vars

\* a run whose fetch raised has ended and its user's pending song is still
\* the one it tried to fetch
WitC4 ==
  \E t \in TaskIds :
    /\ FetchRaised(tasks[t])
    /\ tasks[t].pc = "done"
    /\ DictGet(pending_songs, tasks[t].update.user) = tasks[t].song_name

\* C5 as stated: a successful run for the choice "both" called extract_info
\* twice for the song it read, once per format, sent the audio from the
\* audio-only download and the video from the video download.
CexC5 ==
  \A t \in TaskIds :
    IsOption(tasks[t]) /\ tasks[t].update.data = "both" /\ tasks[t].outcome = "success" =>
      LET f == Events(tasks[t], "extract_info")
          a == Events(tasks[t], "send_audio")
          v == Events(tasks[t], "send_video")
      IN /\ Len(f) = 2
         /\ f[1][2] = tasks[t].song_name /\ f[2][2] = tasks[t].song_name
         /\ {f[1][3], f[2][3]} = {AUDIO_ONLY, VIDEO_WITH_AUDIO}
         /\ Len(a) = 1 /\ a[1][2][2] = ExtOf(AUDIO_ONLY)
         /\ Len(v) = 1 /\ v[1][2][2] = ExtOf(VIDEO_WITH_AUDIO)

\* C6: a run for "music" or "video" that ends in success has, in this order
\* and nothing else after the typing indicator: called extract_info once
\* with the song it read and the format of the choice (audio-only for music,
\* video-with-audio for video), sent the file once through the send call of
\* the choice, sent one "Delivered" reply; and it ends with no pending song
\* for its user.
ThmC6 ==
  [][\A t \in TaskIds :
       IsOption(tasks[t]) /\ tasks[t].update.data \in {"music", "video"} /\ EndsInSuccess(t) =>
         LET tk == tasks'[t]
             music == tk.update.data = "music"
         IN /\ tk.log =
                 << <<"edit_message_text", "downloading">>,
                    <<"send_chat_action", "typing">>,
                    <<"extract_info", tk.song_name,
                      IF music THEN AUDIO_ONLY ELSE VIDEO_WITH_AUDIO>>,
                    <<IF music THEN "send_audio" ELSE "send_video",
                      tk.filename, tk.info.title>>,
                    <<"reply_text", "delivered", tk.info.title>>,
                    <<"os.remove", tk.filename, tk.filename \in files>>,
                    <<"pending_songs.pop", tk.update.user>> >>
            /\ ~Falsy(tk.song_name)
            /\ tk.filename[2] = (IF music THEN "m4a" ELSE "mp4")
            /\ tk.update.user \notin DOMAIN pending_songs']_vars

\* a "music" run and a "video" run have both ended in success
WitC6 ==
  \E t1, t2 \in TaskIds :
    /\ tasks[t1].update.data = "music" /\ tasks[t1].outcome = "success"
    /\ tasks[t2].update.data = "video" /\ tasks[t2].outcome = "success"

\* C7: telegram_webhook has returned {"ok": true} for every update it handed
\* to process_update, whatever the task of that update has done since: not
\* started, inside a fetch that has not returned, failed or ended.
ThmC7 ==
  /\ Len(acks) = Len(tasks)
  /\ \A t \in TaskIds : acks[t] = [ok |-> TRUE]

\* the webhook has answered for a task that is inside its fetch, for one
\* that has not started and for one whose handler raised
WitC7 ==
  \E t1, t2, t3 \in TaskIds :
    /\ tasks[t1].pc = "fetch"
    /\ tasks[t2].pc = "created"
    /\ tasks[t3].outcome = "escaped"
    /\ acks[t1].ok /\ acks[t2].ok /\ acks[t3].ok

\* C8 as stated: while the fetch of a task has not returned, the webhook can
\* take a new update and every unfinished task of another user can take its
\* next step.
CexC8 ==
  \A t \in TaskIds : tasks[t].pc = "fetch" =>
    /\ Len(tasks) < MaxTasks => ENABLED (\E upd \in Updates : telegram_webhook(upd))
    /\ \A t2 \in TaskIds :
         tasks[t2].pc # "done" /\ tasks[t2].update.user # tasks[t].update.user
           => ENABLED Step(t2)

\* the users whose /start has run
StartedUsers ==
  {tasks[t].update.user :
     t \in {i \in TaskIds : tasks[i].handler = "start" /\ tasks[i].pc # "created"}}

\* this step is the first of task t, which runs handler h
Runs(t, h) ==
  tasks[t].handler = h /\ tasks[t].pc = "created" /\ tasks'[t].pc # "created"

\* C9: no step makes monthly_users smaller in cardinality; a /start of a
\* user who is in it leaves the cardinality as it is, a /start of any user
\* adds at most 1, and the cardinality never exceeds the number of distinct
\* users whose /start has run.
ThmC9 ==
  [][/\ Cardinality(monthly_users') >= Cardinality(monthly_users)
     /\ \A t \in TaskIds : Runs(t, "start") =>
          /\ tasks[t].update.user \in monthly_users
               => Cardinality(monthly_users') = Cardinality(monthly_users)
          /\ Cardinality(monthly_users') <= Cardinality(monthly_users) + 1
     /\ Cardinality(monthly_users') <= Cardinality(StartedUsers')]_vars

\* one user's /start has run twice, another user's once, and the counter
\* holds two users
WitC9 ==
  \E t1, t2, t3 \in TaskIds :
    /\ t1 # t2
    /\ tasks[t1].update.user = tasks[t2].update.user
    /\ tasks[t3].update.user # tasks[t1].update.user
    /\ \A t \in {t1, t2, t3} : tasks[t].handler = "start" /\ tasks[t].pc = "done"
    /\ Cardinality(monthly_users) = 2

\* the users whose /start, query or format selection has been handled
InteractedUsers ==
  {tasks[t].update.user :
     t \in {i \in TaskIds :
              /\ tasks[i].handler \in {"start", "handle_song_name", "handle_option"}
              /\ tasks[i].pc # "created"}}

\* C10 as stated: the number /stats reports is the number of distinct users
\* who have interacted by /start, by a query or by a format selection (0
\* before any).
CexC10 ==
  [][\A t \in TaskIds :
       Runs(t, "stats") => tasks'[t].reported = Cardinality(InteractedUsers)]_vars

\* C10, amended: the number /stats reports is the number of distinct users
\* whose /start has run (0 before any), however often they issued it; a
\* query or a format selection adds no user.
ThmC10 ==
  [][\A t \in TaskIds :
       Runs(t, "stats") => tasks'[t].reported = Cardinality(StartedUsers)]_vars

\* /stats reported 1 after the /start of one user had run twice
WitC10 ==
  \E t, t1, t2 \in TaskIds :
    /\ tasks[t].handler = "stats" /\ tasks[t].pc = "done" /\ tasks[t].reported = 1
    /\ t1 < t2 /\ t2 < t
    /\ tasks[t1].handler = "start" /\ tasks[t1].pc = "done"
    /\ tasks[t2].handler = "start" /\ tasks[t2].pc = "done"
    /\ tasks[t1].update.user = tasks[t2].update.user

\* this step is the first of task t
FirstStep(t) == tasks[t].pc = "created" /\ tasks'[t].pc # "created"

\* task t's first step runs handler h and leaves the session store as it is
RoutedAside(t, h) == tasks[t].handler = h /\ pending_songs' = pending_songs

\* task t's first step runs handle_song_name, which stores the text
RoutedToSongName(t) ==
  /\ tasks[t].handler = "handle_song_name"
  /\ tasks'[t].pc = "reply_text"
  /\ DictGet(pending_songs', tasks[t].update.user) = tasks[t].update.data

\* no handler runs for task t: its only step ends it and changes nothing else
RoutedNowhere(t) ==
  /\ tasks'[t].outcome = "ignored"
  /\ UNCHANGED <<acks, monthly_users, pending_songs, files>>

\* what C11 says of /start, /stats, button presses and other update kinds
RoutedAsStated(t) ==
  LET upd == tasks[t].update
  IN /\ upd.kind = "message" /\ upd.data = "/start" => RoutedAside(t, "start")
     /\ upd.kind = "message" /\ upd.data = "/stats" => RoutedAside(t, "stats")
     /\ upd.kind = "callback_query" =>
          tasks[t].handler = "handle_option" /\ tasks'[t].pc = "answer"
     /\ upd.kind = "other" => RoutedNowhere(t)

\* C11 as stated: every message with a text other than /start and /stats,
\* an unrecognized /command included, goes to handle_song_name and becomes
\* the sender's pending song; /start, /stats, button presses and other
\* update kinds go where C11 says.
CexC11 ==
  [][\A t \in TaskIds : FirstStep(t) =>
       /\ RoutedAsStated(t)
       /\ /\ tasks[t].update.kind = "message"
          /\ tasks[t].update.data \notin {"/start", "/stats", ""}
          => RoutedToSongName(t)]_vars

\* C11, amended: a message whose text is not empty and is no command goes
\* to handle_song_name and becomes the sender's pending song; a message
\* whose text is an unrecognized /command (or is empty) is handled by no
\* step and changes no state; /start, /stats, button presses and other
\* update kinds go where C11 says.
ThmC11 ==
  [][\A t \in TaskIds : FirstStep(t) =>
       /\ RoutedAsStated(t)
       /\ /\ tasks[t].update.kind = "message"
          /\ tasks[t].update.data \in {"Shape of You", "Hello"}
          => RoutedToSongName(t)
       /\ /\ tasks[t].update.kind = "message"
          /\ tasks[t].update.data \in {"/help", ""}
          => RoutedNowhere(t)]_vars

\* /help was ignored while the sender's earlier query is still pending
WitC11 ==
  \E t1, t2 \in TaskIds :
    /\ tasks[t1].update.data = "/help" /\ tasks[t1].outcome = "ignored"
    /\ tasks[t2].handler = "handle_song_name" /\ tasks[t2].pc = "done"
    /\ tasks[t2].update.user = tasks[t1].update.user
    /\ DictGet(pending_songs, tasks[t1].update.user) = tasks[t2].update.data

\* the queries the fetch was invoked with during the run of task tk
FetchedQueries(tk) ==
  {Events(tk, "extract_info")[i][2] : i \in 1..Len(Events(tk, "extract_info"))}

\* C12: after handle_song_name runs for user u with text t, u's pending
\* query is t whatever it was before and nobody else's entry moves; an
\* entry only ever takes a new value through such a run, so it is always
\* the latest stored text; a user has one pending query, a single text;
\* and a format selection reads the entry as it is then and invokes the
\* fetch at most once, with the query it read.
ThmC12 ==
  [][/\ \A t \in TaskIds : Runs(t, "handle_song_name") =>
          /\ DictGet(pending_songs', tasks[t].update.user) = tasks[t].update.data
          /\ \A v \in Users \ {tasks[t].update.user} :
               DictGet(pending_songs', v) = DictGet(pending_songs, v)
     /\ \A u \in DOMAIN pending_songs' :
          /\ pending_songs'[u] \in Texts
          /\ pending_songs'[u] # DictGet(pending_songs, u) =>
               \E t \in TaskIds : /\ Runs(t, "handle_song_name")
                                  /\ tasks[t].update.user = u
                                  /\ tasks[t].update.data = pending_songs'[u]
     /\ \A t \in TaskIds :
          /\ tasks[t].pc = "answer" /\ tasks'[t].pc \notin {"answer", "done"} =>
               tasks'[t].song_name = DictGet(pending_songs, tasks[t].update.user)
          /\ Len(Events(tasks'[t], "extract_info")) <= 1
          /\ FetchedQueries(tasks'[t]) \subseteq {tasks'[t].song_name}]_vars

\* user A stored two different queries one after the other, and A's format
\* selection made afterwards fetched the later one
WitC12 ==
  /\ Len(tasks) = 3
  /\ tasks[1].handler = "handle_song_name" /\ tasks[1].pc = "done"
  /\ tasks[2].handler = "handle_song_name" /\ tasks[2].pc = "done"
  /\ tasks[1].update.user = tasks[2].update.user
  /\ tasks[1].update.data # tasks[2].update.data
  /\ tasks[3].update.user = tasks[2].update.user
  /\ IsOption(tasks[3])
  /\ DictGet(pending_songs, tasks[2].update.user) = tasks[2].update.data
  /\ FetchedQueries(tasks[3]) = {tasks[2].update.data}

\* C13 as stated: a message whose text is the empty string is taken by
\* handle_song_name and becomes the sender's pending query.
CexC13 ==
  [][\A t \in TaskIds :
       FirstStep(t) /\ tasks[t].update.kind = "message" /\ tasks[t].update.data = ""
       => RoutedToSongName(t)]_vars

\* C13, amended: a message whose text is the empty string is handled by no
\* step, so the empty string is never anybody's pending query and is never
\* forwarded to the external fetch; a format selection that reads no query
\* (or an empty one) treats it as missing and invokes no fetch.
ThmC13 ==
  /\ \A u \in DOMAIN pending_songs : pending_songs[u] # ""
  /\ \A t \in TaskIds :
       /\ tasks[t].update.kind = "message" /\ tasks[t].update.data = "" =>
            /\ tasks[t].handler = "none"
            /\ tasks[t].pc = "done" => tasks[t].outcome = "ignored"
       /\ "" \notin FetchedQueries(tasks[t])
       /\ IsOption(tasks[t]) /\ tasks[t].song_name \in {None, ""} =>
            /\ FetchedQueries(tasks[t]) = {}
            /\ tasks[t].pc \in {"edit_no_song", "done"}

\* a user's empty message was dropped, and the format selection that the
\* same user made next found no pending query
WitC13 ==
  \E t1, t2 \in TaskIds :
    /\ t1 < t2
    /\ tasks[t1].update.kind = "message" /\ tasks[t1].update.data = ""
    /\ tasks[t1].outcome = "ignored"
    /\ IsOption(tasks[t2]) /\ tasks[t2].update.user = tasks[t1].update.user
    /\ tasks[t2].outcome = "no_song"
    /\ tasks[t2].song_name = None

\* the local time of day, in minutes, 5 hours 30 minutes after UTC time now
LocalMinutes(now) == (60 * now.hour + now.minute + 330) % 1440

\* the band C14 gives to a local hour
BandOfHour(h) ==
  IF 5 <= h /\ h < 12 THEN "Good Morning"
  ELSE IF 12 <= h /\ h < 17 THEN "Good Afternoon"
  ELSE IF 17 <= h /\ h < 21 THEN "Good Evening"
  ELSE "Good Night"

\* C14 as stated: for every UTC hour and minute, the greeting /start
\* computed is the band of the local time, UTC plus 5 hours 30 minutes
\* modulo 24 hours: Morning in [5,12), Afternoon in [12,17), Evening in
\* [17,21), Night otherwise.
CexC14 ==
  \A t \in TaskIds :
    \A i \in 1..Len(Events(tasks[t], "get_greeting")) :
      LET e == Events(tasks[t], "get_greeting")[i]
      IN e[3][1] = BandOfHour(LocalMinutes(e[2]) \div 60)

\* the replies of one kind ("delivered" or "failed") a run has sent
Replies(tk, what) == SelectSeq(Events(tk, "reply_text"), LAMBDA e : e[2] = what)

\* the run of tk has delivered no media and confirmed nothing
NothingDelivered(tk) ==
  /\ Events(tk, "send_audio") = <<>>
  /\ Events(tk, "send_video") = <<>>
  /\ Replies(tk, "delivered") = <<>>

\* this step ends the run of task t
Ends(t) == tasks[t].pc # "done" /\ tasks'[t].pc = "done"

\* C15 as stated: every run whose fetch raised ends without an error
\* having left the handler, having sent exactly one failure message, no
\* media and no confirmation.
CexC15 ==
  [][\A t \in TaskIds : Ends(t) /\ FetchRaised(tasks'[t]) =>
       /\ tasks'[t].outcome # "escaped"
       /\ Len(Replies(tasks'[t], "failed")) = 1
       /\ NothingDelivered(tasks'[t])]_vars

\* C15, amended: when the fetch raises, the error is caught and logged
\* inside the handler, which goes on to send the failure message; the run
\* delivers no media and sends no confirmation; it ends right after the
\* failure message, having sent exactly that one, unless sending it raised:
\* then it has sent none and that second error leaves the handler.
ThmC15 ==
  [][\A t \in TaskIds :
       /\ tasks[t].pc = "fetch" /\ tasks'[t].pc # "fetch" /\ tasks'[t].info = NoInfo =>
            /\ tasks'[t].pc = "reply_failed"
            /\ tasks'[t].outcome = "running"
            /\ tasks'[t].log = Append(tasks[t].log, <<"logger.error", tasks[t].song_name>>)
       /\ FetchRaised(tasks'[t]) =>
            /\ NothingDelivered(tasks'[t])
            /\ Len(Events(tasks'[t], "logger.error")) = 1
            /\ tasks'[t].pc \in {"reply_failed", "done"}
       /\ Ends(t) /\ FetchRaised(tasks'[t]) =>
            /\ tasks[t].pc = "reply_failed"
            /\ tasks'[t].outcome \in {"failed", "escaped"}
            /\ Len(Replies(tasks'[t], "failed")) =
                 IF tasks'[t].outcome = "failed" THEN 1 ELSE 0]_vars

\* the fetch raised in two runs: one ended with its failure message sent,
\* the other could not send it
WitC15 ==
  \E t1, t2 \in TaskIds :
    /\ FetchRaised(tasks[t1]) /\ tasks[t1].outcome = "failed"
    /\ Len(Replies(tasks[t1], "failed")) = 1
    /\ FetchRaised(tasks[t2]) /\ tasks[t2].outcome = "escaped"

\* the names of the events of a log, in order
Names(log) == [i \in 1..Len(log) |-> log[i][1]]

\* the media deliveries C16 expects for a choice, in order
Deliveries(choice) ==
  IF choice = "music" THEN <<"send_audio">>
  ELSE IF choice = "video" THEN <<"send_video">>
  ELSE <<"send_audio", "send_video">>

\* C16: the events of a run that ends in success are, in this order and no
\* other: the "downloading" edit, the typing indicator, the fetch, the
\* media delivery of the choice, the confirmation, the removal of the file
\* (os.remove, called if the file is still there) and last the clearing of
\* the pending query; the run's file is gone when it ends; and no step of a run clears the pending query unless the run's
\* confirmation has been sent and its file has been dealt with before.
ThmC16 ==
  [][\A t \in TaskIds : IsOption(tasks[t]) /\ tasks'[t] # tasks[t] =>
       /\ EndsInSuccess(t) =>
            /\ Names(tasks'[t].log) =
                 <<"edit_message_text", "send_chat_action", "extract_info">>
                   \o Deliveries(tasks[t].update.data)
                   \o <<"reply_text", "os.remove", "pending_songs.pop">>
            /\ Len(Replies(tasks'[t], "delivered")) = 1
            /\ tasks'[t].filename \notin files'
       /\ tasks[t].update.user \in DOMAIN pending_songs \ DOMAIN pending_songs' =>
            /\ EndsInSuccess(t)
            /\ \E i, j, k \in 1..Len(tasks'[t].log) :
                 /\ i < j /\ j < k /\ k = Len(tasks'[t].log)
                 /\ tasks'[t].log[i] = <<"reply_text", "delivered", tasks[t].info.title>>
                 /\ tasks'[t].log[j][1] = "os.remove"
                 /\ tasks'[t].log[k][1] = "pending_songs.pop"]_vars

\* a run for "both" has ended in success: eight events, two deliveries
WitC16 ==
  \E t \in TaskIds :
    /\ IsOption(tasks[t]) /\ tasks[t].update.data = "both"
    /\ tasks[t].outcome = "success"
    /\ Len(tasks[t].log) = 8
    /\ Len(Events(tasks[t], "send_audio")) = 1 /\ Len(Events(tasks[t], "send_video")) = 1

\* the run of task t has started and has not ended
InFlight(t) == tasks[t].pc \notin {"created", "done"}

\* C17: nothing serializes the updates of one user: while a format
\* selection of a user is in flight, another selection of the same user
\* starts as soon as the event loop is free, and goes on from any await it
\* is suspended in; the state WitC17 shows that two such runs read the same
\* pending query before either cleared it, and both fetched and delivered.
ThmC17 ==
  \A t1, t2 \in TaskIds :
    /\ t1 # t2
    /\ IsOption(tasks[t1]) /\ IsOption(tasks[t2])
    /\ tasks[t1].update.user = tasks[t2].update.user
    /\ InFlight(t1)
    /\ tasks[t2].pc # "done"
    /\ ~LoopBlocked
    => /\ ENABLED Step(t2)
       /\ tasks[t2].pc = "created" => ENABLED handle_option(t2)

\* two selections of one user are in flight together: both read the query
\* that is still pending, both fetched it and both delivered their media
WitC17 ==
  \E t1, t2 \in TaskIds :
    /\ t1 # t2
    /\ IsOption(tasks[t1]) /\ IsOption(tasks[t2])
    /\ tasks[t1].update.user = tasks[t2].update.user
    /\ tasks[t1].pc = "reply_delivered" /\ tasks[t2].pc = "reply_delivered"
    /\ tasks[t1].song_name = tasks[t2].song_name
    /\ DictGet(pending_songs, tasks[t1].update.user) = tasks[t1].song_name
    /\ FetchedQueries(tasks[t1]) = {tasks[t1].song_name}
    /\ FetchedQueries(tasks[t2]) = {tasks[t1].song_name}
    /\ Len(Events(tasks[t1], "send_audio")) + Len(Events(tasks[t1], "send_video")) > 0
    /\ Len(Events(tasks[t2], "send_audio")) + Len(Events(tasks[t2], "send_video")) > 0

\* C18 as stated: the pending query that a run removes when it ends in
\* success is the query that run read and fetched.
CexC18 ==
  [][\A t \in TaskIds :
       /\ EndsInSuccess(t)
       /\ tasks[t].update.user \in DOMAIN pending_songs
       /\ tasks[t].update.user \notin DOMAIN pending_songs'
       => pending_songs[tasks[t].update.user] = tasks[t].song_name]_vars

\* C19 as stated: when a run whose fetch returned a file ends, the file is
\* gone, whether delivery and confirmation succeeded or raised.
CexC19 ==
  [][\A t \in TaskIds :
       Ends(t) /\ IsOption(tasks[t]) /\ tasks'[t].filename # NoFile
       => tasks'[t].filename \notin files']_vars

\* C20 as stated: a file that a run has fetched and has not finished
\* delivering is not removed by a step of another run.
CexC20 ==
  [][\A t \in TaskIds :
       /\ IsOption(tasks[t])
       /\ tasks[t].pc \in {"send_audio", "send_video"}
       /\ tasks[t].filename \in files
       /\ tasks'[t] = tasks[t]
       => tasks[t].filename \in files']_vars

====
